---- MODULE Spec2Model ----
(***************************************************************************)
(* Discord rich-presence bridge for macOS "now playing" media              *)
(* (src/index.ts): the polling tick updatePresence, the tray Pause/Resume  *)
(* handler, the rpc ready/disconnected handlers, and the pure helpers the  *)
(* tick uses to build the activity it pushes.                              *)
(*                                                                         *)
(* Conventions.  A JavaScript string is a sequence of one-character        *)
(* strings.  null / undefined is the empty sequence None; a present        *)
(* number n is <<n>>.  The text fields of NowPlayingInfo are produced with *)
(* `x || null`, so the empty string and null are the same value there.     *)
(* Times are integer milliseconds.                                         *)
(***************************************************************************)
EXTENDS Integers, Sequences, FiniteSets, Bags, TLC

None == <<>>

Some(x) == <<x>>

Val(o) == o[1]

Min(a, b) == IF a <= b THEN a ELSE b

\* String.prototype.substring(0, n)
substring0(s, n) == SubSeq(s, 1, Min(n, Len(s)))

\* n copies of the character c
Rep(c, n) == [i \in 1..n |-> c]

Digit(d) == <<"0", "1", "2", "3", "4", "5", "6", "7", "8", "9">>[d + 1]

RECURSIVE NumToString(_)
\* Number.prototype.toString() of a non-negative integer
NumToString(n) ==
  IF n < 10 THEN <<Digit(n)>> ELSE NumToString(n \div 10) \o <<Digit(n % 10)>>

\* String.prototype.padStart(2, "0")
padStart2(s) == IF Len(s) < 2 THEN Rep("0", 2 - Len(s)) \o s ELSE s

\* `${x}` of a string-or-null inside a template literal
TemplateStr(x) == IF x = None THEN <<"n", "u", "l", "l">> ELSE x

(***************************************************************************)
(* Program constants                                                       *)
(***************************************************************************)
POLL_INTERVAL == 5000

YT_MUSIC_CACHE_TTL == 30000

TELEGRAM_BUNDLE_IDS ==
  {"ru.keepcoder.Telegram", "org.telegram.desktop", "com.tdesktop.Telegram"}

APP_MODE_LOADER == "app_mode_loader"

\* String.prototype.toLowerCase on the bundle identifiers of the model
toLowerCase(b) ==
  CASE b = "ru.keepcoder.Telegram" -> "ru.keepcoder.telegram"
    [] b = "RU.KEEPCODER.TELEGRAM" -> "ru.keepcoder.telegram"
    [] b = "com.tdesktop.Telegram" -> "com.tdesktop.telegram"
    [] b = "com.apple.Music" -> "com.apple.music"
    [] b = "com.apple.WebKit.GPU" -> "com.apple.webkit.gpu"
    [] b = "APP_MODE_LOADER" -> "app_mode_loader"
    [] OTHER -> b

(***************************************************************************)
(* Snapshot normalizer: getNowPlayingInfo                                  *)
(***************************************************************************)
EmptyInfo ==
  [title |-> None, artist |-> None, album |-> None, duration |-> None,
   elapsedTime |-> None, timestamp |-> None, playbackRate |-> None,
   bundleIdentifier |-> "", processIdentifier |-> None, isPlaying |-> FALSE]

\* the snapshot with the error indicator of the script left unread
getNowPlayingInfoErrorUnread(raw) ==
  IF raw.fail = "throw" THEN EmptyInfo
  ELSE [title |-> raw.title, artist |-> raw.artist, album |-> raw.album,
        duration |-> raw.duration, elapsedTime |-> raw.elapsedTime,
        timestamp |-> raw.timestamp, playbackRate |-> raw.playbackRate,
        bundleIdentifier |-> IF raw.parent # "" THEN raw.parent ELSE raw.bundle,
        processIdentifier |-> raw.pid,
        isPlaying |-> raw.isPlaying]

\* the snapshot with the parent application ignored
getNowPlayingInfoOwnBundle(raw) ==
  IF raw.fail # "none" THEN EmptyInfo
  ELSE [title |-> raw.title, artist |-> raw.artist, album |-> raw.album,
        duration |-> raw.duration, elapsedTime |-> raw.elapsedTime,
        timestamp |-> raw.timestamp, playbackRate |-> raw.playbackRate,
        bundleIdentifier |-> raw.bundle,
        processIdentifier |-> raw.pid,
        isPlaying |-> raw.isPlaying]

\* raw.fail: "throw" (osascript or JSON.parse threw), "error" (parsed.error
\* set), "none" (a parsed result).  raw.parent / raw.bundle are "" when the
\* client or the identifier is missing.
getNowPlayingInfo(raw) ==
  IF raw.fail # "none" THEN EmptyInfo
  ELSE [title |-> raw.title, artist |-> raw.artist, album |-> raw.album,
        duration |-> raw.duration, elapsedTime |-> raw.elapsedTime,
        timestamp |-> raw.timestamp, playbackRate |-> raw.playbackRate,
        bundleIdentifier |-> IF raw.parent # "" THEN raw.parent ELSE raw.bundle,
        processIdentifier |-> raw.pid,
        isPlaying |-> raw.isPlaying]

(***************************************************************************)
(* Source classifier: the synchronous part of getMediaSource.  "" is null. *)
(***************************************************************************)
IsTelegram(bundleId) ==
  \E id \in TELEGRAM_BUNDLE_IDS : toLowerCase(bundleId) = toLowerCase(id)

\* whether getMediaSource reaches the call of isYouTubeMusicPid
NeedsPidCheck(info) ==
  /\ info.bundleIdentifier # ""
  /\ ~IsTelegram(info.bundleIdentifier)
  /\ info.bundleIdentifier = APP_MODE_LOADER
  /\ info.processIdentifier # None
  /\ Val(info.processIdentifier) # 0

\* the lookup with a failure of `ps` taken for a match
isYouTubeMusicPidFailOpen(outcome) == outcome # "nomatch"

\* what isYouTubeMusicPid returns for an outcome of `ps`: whether the command
\* line names the web app, false when the command throws
isYouTubeMusicPid(outcome) == outcome = "match"

\* getMediaSource once the answer of isYouTubeMusicPid (if asked) is known
getMediaSource(info, isYtMusic) ==
  IF info.bundleIdentifier = "" THEN ""
  ELSE IF IsTelegram(info.bundleIdentifier) THEN "telegram"
  ELSE IF NeedsPidCheck(info) /\ isYtMusic THEN "youtube-music"
  ELSE ""

(***************************************************************************)
(* Presence lifecycle helpers of updatePresence                            *)
(***************************************************************************)
\* the playing test with the playback rate left out
IsActivelyPlayingRateIgnored(info) == info.isPlaying

\* info.isPlaying && info.playbackRate && info.playbackRate > 0
IsActivelyPlaying(info) ==
  /\ info.isPlaying
  /\ info.playbackRate # None
  /\ Val(info.playbackRate) # 0
  /\ Val(info.playbackRate) > 0

\* mediaSource && info.title && isPlaying
TakesPlayingBranch(info, mediaSource) ==
  mediaSource # "" /\ info.title # None /\ IsActivelyPlaying(info)

\* `${info.title}-${info.artist}-${info.album}`
TrackId(info) ==
  TemplateStr(info.title) \o <<"-">> \o TemplateStr(info.artist)
    \o <<"-">> \o TemplateStr(info.album)

\* the track-change test answering yes on every playing tick
IsNewTrackAlways(trackId, last) == TRUE

\* trackId !== lastTrack
IsNewTrack(trackId, last) == trackId # last

\* `${title}-${artist || ""}`
CacheKey(title, artist) == title \o <<"-">> \o artist

(***************************************************************************)
(* The activity updatePresence pushes with setActivity                     *)
(***************************************************************************)
UnknownTrack == <<"U", "n", "k", "n", "o", "w", "n", " ", "T", "r", "a", "c", "k">>

UnknownArtist == <<"U", "n", "k", "n", "o", "w", "n", " ", "A", "r", "t", "i", "s", "t">>

MusicName == <<"M", "u", "s", "i", "c">>

\* the separator of the template literal `${state} ... ${mins}:${secs}`:
\* a space, three characters, a space
DurationSep == <<" ", "x201a", "xc4", "xa2", " ">>

\* s || d for strings
OrElse(s, d) == IF s = None THEN d ELSE s

\* if (x.length < 2) x = `${x} `
PadShort(s) == IF Len(s) < 2 THEN s \o <<" ">> ELSE s

\* if (x.length === 1) x = x + ' '
PadOne(s) == IF Len(s) = 1 THEN s \o <<" ">> ELSE s

\* if (x.length > 127) x = x.substring(0, 127)
Cut127(s) == IF Len(s) > 127 THEN substring0(s, 127) ELSE s

Details(info) == substring0(Cut127(PadShort(OrElse(info.title, UnknownTrack))), 128)

\* `${state} ... ${mins}:${secs.toString().padStart(2, "0")}`
StateWithDuration(artistText, duration) ==
  artistText \o DurationSep \o NumToString(duration \div 60) \o <<":">>
    \o padStart2(NumToString(duration % 60))

StateText(info) ==
  substring0(
    IF info.duration # None /\ Val(info.duration) # 0
      THEN StateWithDuration(OrElse(info.artist, UnknownArtist), Val(info.duration))
      ELSE OrElse(info.artist, UnknownArtist),
    128)

DisplayName(info) ==
  Cut127(PadShort(
    IF info.artist # None
      THEN info.title \o <<" ", "-", " ">> \o info.artist
      ELSE OrElse(info.title, MusicName)))

\* the start computed without the time since the sample was taken
StartTimestampNoDrift(info, now, trackStart) ==
  IF info.elapsedTime # None /\ info.timestamp # None
    THEN now - Val(info.elapsedTime) * 1000
    ELSE IF trackStart # None /\ Val(trackStart) # 0 THEN Val(trackStart) ELSE now

\* now - (elapsedTime * 1000 + (now - timestamp)), or the local fallback
\* currentTrackStartTime || now
StartTimestamp(info, now, trackStart) ==
  IF info.elapsedTime # None /\ info.timestamp # None
    THEN now - (Val(info.elapsedTime) * 1000 + (now - Val(info.timestamp)))
    ELSE IF trackStart # None /\ Val(trackStart) # 0 THEN Val(trackStart) ELSE now

\* the end of the progress with a duration of zero taken as unknown
EndTimestampZeroIsUnknown(info, start) ==
  IF info.duration # None /\ Val(info.duration) # 0
    THEN Some(start + Val(info.duration) * 1000) ELSE None

\* info.duration !== null ? startTimestamp + info.duration * 1000 : undefined
EndTimestamp(info, start) ==
  IF info.duration # None THEN Some(start + Val(info.duration) * 1000) ELSE None

\* the asset key without the distinction of the source
SourceKeyTelegramOnly(mediaSource) == <<"telegram">>

SourceKey(mediaSource) ==
  IF mediaSource = "youtube-music" THEN <<"youtube-music">> ELSE <<"telegram">>

SourceText(mediaSource) ==
  IF mediaSource = "youtube-music" THEN <<"Y", "o", "u", "T", "u", "b", "e", " ", "M", "u", "s", "i", "c">> ELSE <<"T", "e", "l", "e", "g", "r", "a", "m">>

\* info.title and info.album as rewritten in place before the call
PushedTitle(info) == Cut127(PadOne(info.title))

PushedAlbum(info) == IF info.album # None THEN Cut127(PadOne(info.album)) ELSE None

\* the argument of rpc.user.setActivity
BuildActivity(info, mediaSource, artworkUrl, now, trackStart) ==
  LET start == StartTimestamp(info, now, trackStart)
      end == EndTimestamp(info, start)
  IN  [name |-> DisplayName(info),
       details |-> Details(info),
       state |-> StateText(info),
       startTimestamp |-> start,
       endTimestamp |-> IF end # None /\ Val(end) # 0 THEN end ELSE None,
       largeImageKey |-> OrElse(artworkUrl, SourceKey(mediaSource)),
       largeImageText |->
         OrElse(PushedAlbum(info), OrElse(PushedTitle(info), SourceText(mediaSource))),
       smallImageKey |-> SourceKey(mediaSource),
       smallImageText |->
         OrElse(PushedTitle(info), <<"P", "l", "a", "y", "i", "n", "g", " ", "v", "i", "a", " ">> \o SourceText(mediaSource))]

(***************************************************************************)
(* Bounds and inputs of the model                                          *)
(***************************************************************************)
\* updatePresence invocations that may be in flight at once
MaxTicks == 2

\* steps of ClockStep the clock may advance
MaxAdvance == 1

\* the resolution of the clock: one lifetime of a ytMusicPidCache entry
ClockStep == YT_MUSIC_CACHE_TTL

\* the wall clock when the process starts
T0 == 20 * POLL_INTERVAL

Str_a == <<"a">>

Str_a_b == <<"a", "-", "b">>

Str_b_c == <<"b", "-", "c">>

Str_c == <<"c">>

Str_d == <<"d">>

PlayingTelegram ==
  [fail |-> "none", parent |-> "", bundle |-> "ru.keepcoder.Telegram",
   pid |-> Some(41), title |-> Str_a_b, artist |-> Str_c, album |-> None,
   duration |-> Some(200), elapsedTime |-> Some(30), timestamp |-> Some(T0),
   playbackRate |-> Some(1), isPlaying |-> TRUE]

\* what the media query may answer
RawResults ==
  { PlayingTelegram,
    \* same concatenation of title and artist, split elsewhere; reported
    \* through the parent application, without elapsed time
    [PlayingTelegram EXCEPT !.parent = "RU.KEEPCODER.TELEGRAM",
       !.bundle = "com.apple.WebKit.GPU", !.title = Str_a, !.artist = Str_b_c,
       !.duration = None, !.elapsedTime = None, !.timestamp = None],
    [PlayingTelegram EXCEPT !.playbackRate = Some(0)],
    [PlayingTelegram EXCEPT !.playbackRate = None],
    [PlayingTelegram EXCEPT !.isPlaying = FALSE],
    [PlayingTelegram EXCEPT !.title = None],
    [PlayingTelegram EXCEPT !.bundle = "com.apple.Music"],
    \* a Chromium web app playing the same title from another album
    [PlayingTelegram EXCEPT !.bundle = "app_mode_loader", !.pid = Some(7),
       !.album = Str_d],
    [PlayingTelegram EXCEPT !.fail = "throw"],
    [PlayingTelegram EXCEPT !.fail = "error"] }

\* outcomes of `ps -p pid -o args=`
PsOutcomes == {"match", "nomatch", "throw"}

ArtworkUrl == <<"https://cdn.example/cover.jpg">>

\* what fetchArtworkUrl may resolve to on a cache miss; null when nothing
\* was found and when a provider call threw (the catch branch)
ArtworkResults == {None, ArtworkUrl}

(***************************************************************************)
(* State                                                                   *)
(***************************************************************************)
VARIABLES
  TRAY_MODE,              \* process.argv / IS_COMPILED, fixed for the run
  TEST_MODE,              \* process.argv.includes("--test")
  clientIdSet,            \* DISCORD_CLIENT_ID is not the placeholder
  exitCode,               \* the exit status once the process is gone
  shutdownPc,             \* shutdown(): "none", "clear", "destroy"
  retryAt,                \* when the timer of a login retry is due
  mainPc,                 \* where main() stands
  loginState,             \* connectToDiscord: "pending", "retryWait", "done", "failed"
  isPaused,
  isConnected,
  rpcUser,                \* whether rpc.user is defined (set by the library at READY)
  trayItem,               \* title of the Pause/Resume menu item
  now,                    \* Date.now()
  lastTrack,
  currentTrackId,
  currentTrackStartTime,
  ytMusicPidCache,
  artworkCache,
  ticks,                  \* the in-flight invocations of updatePresence, a bag
  presence,               \* what the last call on rpc.user left displayed
  lastBranch,             \* history: the last branch decision of a tick
  probe,                  \* input of a pure-function check
  result                  \* its output

trackVars == <<lastTrack, currentTrackId, currentTrackStartTime>>

argVars == <<TEST_MODE, clientIdSet>>

procVars == <<TEST_MODE, clientIdSet, exitCode, shutdownPc, retryAt>>

connVars == <<isConnected, rpcUser, loginState>>

trayVars == <<isPaused, trayItem>>

cacheVars == <<ytMusicPidCache, artworkCache>>

probeVars == <<probe, result>>

vars ==
  <<TRAY_MODE, TEST_MODE, clientIdSet, exitCode, shutdownPc, retryAt, mainPc, loginState, isPaused, isConnected, rpcUser, trayItem, now,
    lastTrack, currentTrackId, currentTrackStartTime, ytMusicPidCache,
    artworkCache, ticks, presence, lastBranch, probe, result>>

\* One suspended invocation of updatePresence.  pc: "query" (awaiting
\* getNowPlayingInfo), "ps" (awaiting isYouTubeMusicPid), "artwork" (awaiting
\* fetchArtworkUrl), "set" (awaiting setActivity), "clear" (awaiting
\* clearActivity).  Invocations carry no identity: the ones in flight form a
\* bag.
TickAt(pc, info, source, psNow) ==
  [pc |-> pc, info |-> info, source |-> source, psNow |-> psNow]

InFlight == BagCardinality(ticks)

\* the invocations in flight that stand at one of pcs
NumAt(bag, pcs) ==
  BagCardinality([r \in {x \in DOMAIN bag : x.pc \in pcs} |-> bag[r]])

\* the invocation r goes on as r2
Move(r, r2) == (ticks (-) SetToBag({r})) (+) SetToBag({r2})

NoTriple == <<None, None, None>>

\* kind: "none", "playing", "stopped".  rel, for a playing branch: "first"
\* (the branch decision before it was not a playing one), "same" (it was,
\* with the same triple), "changed" (it was, with another triple).
\* since, for a playing branch: the time of the first of the playing
\* branches with this triple that it continues.
\* pause follows a Pause of the tray made while the last branch was a
\* playing one: "paused" from that Pause on, "resumed" from the Resume on,
\* "after" once a tick has then taken the playing branch for the same
\* triple, "none" otherwise; kept is the bookkeeping as it was at the Pause.
NoKept == [lastTrack |-> None, start |-> None]

NoBranch ==
  [kind |-> "none", triple |-> NoTriple, rel |-> "none", isNew |-> FALSE,
   since |-> 0, pause |-> "none", kept |-> NoKept]

\* the pause history after a playing branch for `triple`
PauseAfterPlaying(triple) ==
  IF lastBranch.kind = "playing" /\ lastBranch.triple = triple
    THEN (CASE lastBranch.pause = "resumed" -> "after"
            [] lastBranch.pause = "paused" -> "paused"
            [] OTHER -> "none")
    ELSE "none"

QueryTick == TickAt("query", EmptyInfo, "", 0)

\* main() without a credential check
StartOfUnchecked(testMode, tray, hasId) ==
  IF testMode
    THEN [mainPc |-> "initialRun", loginState |-> "none", exitCode |-> None,
          running |-> TRUE]
    ELSE [mainPc |-> IF tray THEN "polling" ELSE "connect", loginState |-> "pending",
          exitCode |-> None, running |-> FALSE]

\* main() without the test of TEST_MODE
StartOfTestIgnored(testMode, tray, hasId) ==
  IF ~hasId
    THEN [mainPc |-> "exited", loginState |-> "none", exitCode |-> Some(1),
          running |-> FALSE]
    ELSE [mainPc |-> IF tray THEN "polling" ELSE "connect", loginState |-> "pending",
          exitCode |-> None, running |-> FALSE]

\* main() up to its first await on external work.  In test mode testMode()
\* has called runTest, which awaits getNowPlayingInfo.  Otherwise, without
\* the credential, process.exit(1) before the client exists.  Otherwise the
\* client exists (loginState "pending": rpc.login() is awaited): with the
\* tray, main() has started connectToDiscord without awaiting it and its
\* first updatePresence has returned at the guard (isConnected is still
\* false), so the interval timer and the signal handlers are set; without
\* the tray main() awaits connectToDiscord.
StartOf(testMode, tray, hasId) ==
  IF testMode
    THEN [mainPc |-> "initialRun", loginState |-> "none", exitCode |-> None,
          running |-> TRUE]
    ELSE IF ~hasId
      THEN [mainPc |-> "exited", loginState |-> "none", exitCode |-> Some(1),
            running |-> FALSE]
      ELSE [mainPc |-> IF tray THEN "polling" ELSE "connect",
            loginState |-> "pending", exitCode |-> None, running |-> FALSE]

Init ==
  /\ TRAY_MODE \in BOOLEAN
  /\ TEST_MODE \in BOOLEAN
  /\ clientIdSet \in BOOLEAN
  /\ mainPc = StartOf(TEST_MODE, TRAY_MODE, clientIdSet).mainPc
  /\ loginState = StartOf(TEST_MODE, TRAY_MODE, clientIdSet).loginState
  /\ exitCode = StartOf(TEST_MODE, TRAY_MODE, clientIdSet).exitCode
  /\ ticks = IF StartOf(TEST_MODE, TRAY_MODE, clientIdSet).running
               THEN SetToBag({QueryTick}) ELSE EmptyBag
  /\ shutdownPc = "none"
  /\ retryAt = None
  /\ isPaused = FALSE
  /\ isConnected = FALSE
  /\ rpcUser = FALSE
  /\ trayItem = "Pause"
  /\ now = T0
  /\ lastTrack = None
  /\ currentTrackId = None
  /\ currentTrackStartTime = None
  /\ ytMusicPidCache = <<>>
  /\ artworkCache = <<>>
  /\ presence = "Cleared"
  /\ lastBranch = NoBranch
  /\ probe = None
  /\ result = None

\* the process ends with the exit status code; its memory is gone
Halt(code) ==
  /\ mainPc' = "exited"
  /\ exitCode' = Some(code)
  /\ shutdownPc' = "none"
  /\ retryAt' = None
  /\ ticks' = EmptyBag
  /\ isPaused' = FALSE
  /\ trayItem' = "Pause"
  /\ isConnected' = FALSE
  /\ rpcUser' = FALSE
  /\ lastTrack' = None
  /\ currentTrackId' = None
  /\ currentTrackStartTime' = None
  /\ ytMusicPidCache' = <<>>
  /\ artworkCache' = <<>>
  /\ lastBranch' = NoBranch
  /\ UNCHANGED <<TRAY_MODE, argVars, now, probeVars>>

(***************************************************************************)
(* updatePresence.  The invocation runs synchronously up to its first      *)
(* await on external work; a step of the model is what runs between two    *)
(* such awaits.  The awaits answered from a cache resume in the same turn  *)
(* of the event loop and are part of the same step.                        *)
(***************************************************************************)
Triple(info) == <<info.title, info.artist, info.album>>

\* the invocation t returns
DoneTick(t) == ticks (-) SetToBag({t})

\* main() is suspended on `await updatePresence()` until the first
\* invocation, the only one in flight then, completes; then it calls
\* setInterval
MainAfter == IF mainPc = "initialRun" THEN "polling" ELSE mainPc

\* an invocation suspended at `await rpc.user?.setActivity(...)`, with what
\* fetchArtworkUrl returned to it and the largeImageKey it passed
SetTick(info, source, artworkUrl, activity) ==
  [pc |-> "set", info |-> info, source |-> source, psNow |-> 0,
   artwork |-> artworkUrl, image |-> activity.largeImageKey,
   start |-> activity.startTimestamp]

\* await rpc.user?.setActivity({...}): the call is made now, its promise
\* settles later
PushActivity(t, info, source, artworkUrl, trackStart) ==
  IF rpcUser
    THEN /\ presence' = "Active"
         /\ ticks' = Move(t, SetTick(info, source, artworkUrl,
                  BuildActivity(info, source, artworkUrl, now, trackStart)))
         /\ UNCHANGED mainPc
    ELSE /\ ticks' = DoneTick(t)
         /\ mainPc' = MainAfter
         /\ UNCHANGED presence

\* the playing branch up to the call of fetchArtworkUrl, and beyond it when
\* the artwork cache answers
PlayingBranch(t, info, source) ==
  LET trackId == TrackId(info)
      isNewTrack == IsNewTrack(trackId, lastTrack)
  IN  /\ lastTrack' = IF isNewTrack THEN trackId ELSE lastTrack
      /\ currentTrackId' = IF isNewTrack THEN trackId ELSE currentTrackId
      /\ currentTrackStartTime' = IF isNewTrack THEN Some(now) ELSE currentTrackStartTime
      /\ lastBranch' =
           [kind |-> "playing", triple |-> Triple(info), isNew |-> isNewTrack,
            rel |-> IF lastBranch.kind # "playing" THEN "first"
                    ELSE IF lastBranch.triple = Triple(info) THEN "same"
                    ELSE "changed",
            since |-> IF lastBranch.kind = "playing"
                         /\ lastBranch.triple = Triple(info)
                        THEN lastBranch.since ELSE now,
            pause |-> PauseAfterPlaying(Triple(info)),
            kept |-> IF PauseAfterPlaying(Triple(info)) # "none"
                       THEN lastBranch.kept ELSE NoKept]
      /\ IF CacheKey(info.title, info.artist) \in DOMAIN artworkCache
           THEN PushActivity(t, info, source,
                             artworkCache[CacheKey(info.title, info.artist)],
                             IF isNewTrack THEN Some(now) ELSE currentTrackStartTime)
           ELSE /\ ticks' = Move(t, TickAt("artwork", info, source, 0))
                /\ UNCHANGED <<presence, mainPc>>

\* await rpc.user?.clearActivity()
ClearByTick(t) ==
  IF rpcUser
    THEN /\ presence' = "Cleared"
         /\ ticks' = Move(t, TickAt("clear", EmptyInfo, "", 0))
         /\ UNCHANGED mainPc
    ELSE /\ ticks' = DoneTick(t)
         /\ mainPc' = MainAfter
         /\ UNCHANGED presence

\* the else branch with the bookkeeping left as it is when the clear is
\* called
StoppedBranchKeepsTrack(t) ==
  /\ lastBranch' = [kind |-> "stopped", triple |-> NoTriple, rel |-> "none",
                    isNew |-> FALSE, since |-> 0, pause |-> "none",
                    kept |-> NoKept]
  /\ IF lastTrack # None
       THEN /\ UNCHANGED trackVars
            /\ ClearByTick(t)
       ELSE /\ ticks' = DoneTick(t)
            /\ mainPc' = MainAfter
            /\ UNCHANGED <<trackVars, presence>>

\* the else branch: clear once if a track was recorded
StoppedBranch(t) ==
  /\ lastBranch' = [kind |-> "stopped", triple |-> NoTriple, rel |-> "none",
                    isNew |-> FALSE, since |-> 0, pause |-> "none",
                    kept |-> NoKept]
  /\ IF lastTrack # None
       THEN /\ lastTrack' = None
            /\ currentTrackId' = None
            /\ currentTrackStartTime' = None
            /\ ClearByTick(t)
       ELSE /\ ticks' = DoneTick(t)
            /\ mainPc' = MainAfter
            /\ UNCHANGED <<trackVars, presence>>

\* updatePresence from the classified source on; runTest only prints
Branch(t, info, source) ==
  IF TEST_MODE
    THEN /\ ticks' = DoneTick(t)
         /\ mainPc' = MainAfter
         /\ UNCHANGED <<trackVars, presence, lastBranch>>
    ELSE IF TakesPlayingBranch(info, source)
      THEN PlayingBranch(t, info, source)
      ELSE StoppedBranch(t)

\* the guard of updatePresence and the call of getNowPlayingInfo; runTest
\* has no guard
Invoke ==
  IF ~TEST_MODE /\ (~isConnected \/ isPaused)
    THEN UNCHANGED ticks
    ELSE ticks' = ticks (+) SetToBag({QueryTick})

\* setInterval(updatePresence, POLL_INTERVAL): the timer fires whether or
\* not an earlier invocation is still suspended
TimerFire ==
  /\ mainPc = "polling"
  /\ InFlight < MaxTicks
  /\ Invoke
  /\ UNCHANGED <<TRAY_MODE, procVars, mainPc, connVars, trayVars, now, trackVars, cacheVars,
                 presence, lastBranch, probeVars>>

PidCacheFresh(pid) ==
  /\ pid \in DOMAIN ytMusicPidCache
  /\ now - ytMusicPidCache[pid].timestamp < YT_MUSIC_CACHE_TTL

\* getNowPlayingInfo answers; getMediaSource runs up to the `ps` call
QueryDone(t, raw) ==
  /\ mainPc # "exited"
  /\ t.pc = "query"
  /\ LET info == getNowPlayingInfo(raw)
         pid == Val(info.processIdentifier)
     IN  IF NeedsPidCheck(info) /\ ~PidCacheFresh(pid)
           THEN /\ ticks' = Move(t, TickAt("ps", info, "", now))
                /\ UNCHANGED <<mainPc, trackVars, presence, lastBranch>>
           ELSE Branch(t, info,
                  getMediaSource(info,
                    NeedsPidCheck(info) /\ ytMusicPidCache[pid].isYtMusic))
  /\ UNCHANGED <<TRAY_MODE, procVars, connVars, trayVars, now, cacheVars, probeVars>>

\* isYouTubeMusicPid resumes after `ps`
PsDone(t, outcome) ==
  /\ mainPc # "exited"
  /\ t.pc = "ps"
  /\ LET info == t.info
         isYtMusic == isYouTubeMusicPid(outcome)
     IN  /\ ytMusicPidCache' =
              (Val(info.processIdentifier) :>
                 [isYtMusic |-> isYtMusic, timestamp |-> t.psNow])
              @@ ytMusicPidCache
         /\ Branch(t, info, getMediaSource(info, isYtMusic))
  /\ UNCHANGED <<TRAY_MODE, procVars, connVars, trayVars, now, artworkCache, probeVars>>

\* fetchArtworkUrl resumes after its provider requests
ArtworkDone(t, artworkUrl) ==
  /\ mainPc # "exited"
  /\ t.pc = "artwork"
  /\ artworkCache' =
       (CacheKey(t.info.title, t.info.artist) :> artworkUrl) @@ artworkCache
  /\ PushActivity(t, t.info, t.source, artworkUrl, currentTrackStartTime)
  /\ UNCHANGED <<TRAY_MODE, procVars, connVars, trayVars, now, trackVars, ytMusicPidCache,
                 lastBranch, probeVars>>

\* What a rejected promise nobody handles does to the process: the
\* runtime's default ends it with status 1, a runtime set to warn goes on.
UnhandledRejection == {"exit", "warn"}

\* The promise of setActivity / clearActivity settles.  When it rejects,
\* updatePresence rejects: the first invocation is awaited by main(), whose
\* rejection main().catch(console.error) logs, so setInterval is never
\* called; the promise of a timer invocation is handled by nobody.
CallDone(t, settled, onUnhandled) ==
  /\ mainPc # "exited"
  /\ t.pc \in {"set", "clear"}
  /\ IF settled = "resolve"
       THEN /\ ticks' = DoneTick(t)
            /\ mainPc' = MainAfter
            /\ UNCHANGED <<TRAY_MODE, procVars, connVars, trayVars, now, trackVars,
                           cacheVars, presence, lastBranch, probeVars>>
       ELSE IF mainPc = "initialRun"
         THEN /\ ticks' = DoneTick(t)
              /\ mainPc' = "idle"
              /\ UNCHANGED <<TRAY_MODE, procVars, connVars, trayVars, now, trackVars,
                             cacheVars, presence, lastBranch, probeVars>>
         ELSE IF onUnhandled = "exit"
           THEN Halt(1) /\ UNCHANGED <<loginState, presence>>
           ELSE /\ ticks' = DoneTick(t)
                /\ UNCHANGED <<TRAY_MODE, procVars, mainPc, connVars, trayVars, now,
                               trackVars, cacheVars, presence, lastBranch, probeVars>>

(***************************************************************************)
(* Tray handler, connection, clock                                         *)
(***************************************************************************)
\* the tray exists: it is created with the tray option, outside test mode
\* and after the credential check
TrayReady == TRAY_MODE /\ ~TEST_MODE /\ mainPc # "exited"

\* a Pause that forgets the track as the not-playing branch does
TrayPauseForgetsTrack ==
  /\ TrayReady
  /\ trayItem = "Pause"
  /\ isPaused' = TRUE
  /\ trayItem' = "Resume"
  /\ presence' = IF rpcUser THEN "Cleared" ELSE presence
  /\ lastBranch' =
       IF lastBranch.kind = "playing"
         THEN [lastBranch EXCEPT !.pause = "paused",
                 !.kept = [lastTrack |-> lastTrack, start |-> currentTrackStartTime]]
         ELSE lastBranch
  /\ lastTrack' = None
  /\ currentTrackId' = None
  /\ currentTrackStartTime' = None
  /\ UNCHANGED <<TRAY_MODE, procVars, mainPc, connVars, now, cacheVars, ticks, probeVars>>

\* systray.onClick, item "Pause": rpc.user?.clearActivity() is not awaited
TrayPause ==
  /\ TrayReady
  /\ trayItem = "Pause"
  /\ isPaused' = TRUE
  /\ trayItem' = "Resume"
  /\ presence' = IF rpcUser THEN "Cleared" ELSE presence
  /\ lastBranch' =
       IF lastBranch.kind = "playing"
         THEN [lastBranch EXCEPT !.pause = "paused",
                 !.kept = [lastTrack |-> lastTrack, start |-> currentTrackStartTime]]
         ELSE lastBranch
  /\ UNCHANGED <<TRAY_MODE, procVars, mainPc, connVars, now, trackVars, cacheVars, ticks,
                 probeVars>>

\* systray.onClick, item "Resume"
TrayResume ==
  /\ TrayReady
  /\ trayItem = "Resume"
  /\ isPaused' = FALSE
  /\ trayItem' = "Pause"
  /\ lastBranch' =
       IF lastBranch.pause = "paused" THEN [lastBranch EXCEPT !.pause = "resumed"]
       ELSE lastBranch
  /\ UNCHANGED <<TRAY_MODE, procVars, mainPc, connVars, now, trackVars, cacheVars, ticks,
                 presence, probeVars>>

\* rpc.login() resolves: the library has set rpc.user and emitted "ready".
\* Without the tray, main() was awaiting it and goes on to the first
\* updatePresence.
LoginSucceed ==
  /\ mainPc # "exited"
  /\ loginState = "pending"
  /\ loginState' = "done"
  /\ isConnected' = TRUE
  /\ rpcUser' = TRUE
  /\ IF mainPc = "connect"
       THEN /\ mainPc' = "initialRun"
            /\ ticks' = ticks (+) SetToBag({QueryTick})
       ELSE UNCHANGED <<mainPc, ticks>>
  /\ UNCHANGED <<TRAY_MODE, procVars, trayVars, now, trackVars, cacheVars, presence,
                 lastBranch, probeVars>>

\* the delay of the login retry, in ms
RETRY_DELAY == 30000

\* connectToDiscord's catch ending the process whatever the mode
LoginFailFatal ==
  /\ mainPc # "exited"
  /\ loginState = "pending"
  /\ Halt(1)
  /\ loginState' = "failed"
  /\ UNCHANGED presence

\* rpc.login() rejects: retry in 30 s with the tray, process.exit(1) without
LoginFail ==
  /\ mainPc # "exited"
  /\ loginState = "pending"
  /\ IF TRAY_MODE
       THEN /\ loginState' = "retryWait"
            /\ retryAt' = Some(now + RETRY_DELAY)
            /\ UNCHANGED <<TRAY_MODE, argVars, exitCode, shutdownPc, mainPc,
                           isConnected, rpcUser, trayVars, now, trackVars, cacheVars,
                           ticks, presence, lastBranch, probeVars>>
       ELSE /\ Halt(1)
            /\ loginState' = "failed"
            /\ UNCHANGED presence

\* setTimeout(connectToDiscord, 30000) fires
RetryLogin ==
  /\ mainPc # "exited"
  /\ loginState = "retryWait"
  /\ now >= Val(retryAt)
  /\ loginState' = "pending"
  /\ retryAt' = None
  /\ UNCHANGED <<TRAY_MODE, argVars, exitCode, shutdownPc, mainPc, isConnected,
                 rpcUser, trayVars, now, trackVars, cacheVars, ticks, presence,
                 lastBranch, probeVars>>

\* rpc.on("disconnected")
Disconnected ==
  /\ mainPc # "exited"
  /\ isConnected
  /\ isConnected' = FALSE
  /\ UNCHANGED <<TRAY_MODE, procVars, mainPc, loginState, rpcUser, trayVars, now, trackVars,
                 cacheVars, ticks, presence, lastBranch, probeVars>>

\* systray.onClick, item "Quit": clearActivity and destroy are not awaited
TrayQuit ==
  /\ TrayReady
  /\ Halt(0)
  /\ presence' = IF rpcUser THEN "Cleared" ELSE presence
  /\ UNCHANGED loginState

\* the status of a process ended by a signal it does not handle: 128 plus
\* the number of SIGINT
KILLED == 128 + 2

\* process.on("SIGINT" / "SIGTERM", shutdown) has run: it is the last but
\* one statement of main(), after setInterval, and testMode() has none
HandlersSet == ~TEST_MODE /\ mainPc = "polling"

\* SIGINT or SIGTERM arrives.  With the handlers set shutdown() starts:
\* `await rpc.user?.clearActivity()`, a call when rpc.user is defined and else
\* nothing to wait for, so that rpc.destroy() is called at once.  Without
\* them the signal ends the process.
Signal ==
  /\ mainPc # "exited"
  /\ shutdownPc = "none"
  /\ IF HandlersSet
       THEN /\ shutdownPc' = IF rpcUser THEN "clear" ELSE "destroy"
            /\ presence' = IF rpcUser THEN "Cleared" ELSE presence
            /\ UNCHANGED <<TRAY_MODE, argVars, exitCode, retryAt, mainPc, connVars,
                           trayVars, now, trackVars, cacheVars, ticks, lastBranch,
                           probeVars>>
       ELSE Halt(KILLED) /\ UNCHANGED <<loginState, presence>>

\* shutdown(): the promise of clearActivity settles.  Resolved, rpc.destroy()
\* is called; rejected, shutdown() rejects and nobody handles it.
ShutdownCleared(settled, onUnhandled) ==
  /\ mainPc # "exited"
  /\ shutdownPc = "clear"
  /\ IF settled = "resolve"
       THEN /\ shutdownPc' = "destroy"
            /\ UNCHANGED <<TRAY_MODE, argVars, exitCode, retryAt, mainPc, connVars,
                           trayVars, now, trackVars, cacheVars, ticks, presence,
                           lastBranch, probeVars>>
       ELSE IF onUnhandled = "exit"
         THEN Halt(1) /\ UNCHANGED <<loginState, presence>>
         ELSE /\ shutdownPc' = "none"
              /\ UNCHANGED <<TRAY_MODE, argVars, exitCode, retryAt, mainPc, connVars,
                             trayVars, now, trackVars, cacheVars, ticks, presence,
                             lastBranch, probeVars>>

\* shutdown(): rpc.destroy() has resolved; systray.kill(false) and
\* process.exit(0)
ShutdownDestroyed ==
  /\ mainPc # "exited"
  /\ shutdownPc = "destroy"
  /\ Halt(0)
  /\ UNCHANGED <<loginState, presence>>

ShutdownClearSettles ==
  \E settled \in {"resolve", "reject"}, onUnhandled \in UnhandledRejection :
    ShutdownCleared(settled, onUnhandled)

\* time passes
Advance ==
  /\ mainPc # "exited"
  /\ now < T0 + MaxAdvance * ClockStep
  /\ now' = now + ClockStep
  /\ UNCHANGED <<TRAY_MODE, procVars, mainPc, connVars, trayVars, trackVars, cacheVars, ticks,
                 presence, lastBranch, probeVars>>

QueryAnswers == \E t \in DOMAIN ticks, raw \in RawResults : QueryDone(t, raw)

PsAnswers == \E t \in DOMAIN ticks, outcome \in PsOutcomes : PsDone(t, outcome)

ArtworkAnswers == \E t \in DOMAIN ticks, url \in ArtworkResults : ArtworkDone(t, url)

CallSettles ==
  \E t \in DOMAIN ticks, settled \in {"resolve", "reject"},
     onUnhandled \in UnhandledRejection : CallDone(t, settled, onUnhandled)

Next ==
  \/ TimerFire
  \/ QueryAnswers
  \/ PsAnswers
  \/ ArtworkAnswers
  \/ CallSettles
  \/ TrayPause
  \/ TrayResume
  \/ TrayQuit
  \/ Signal
  \/ ShutdownClearSettles
  \/ ShutdownDestroyed
  \/ LoginSucceed
  \/ LoginFail
  \/ RetryLogin
  \/ Disconnected
  \/ Advance

Spec == Init /\ [][Next]_vars

(***************************************************************************)
(* The activity builder on its own: the inputs are drawn from bounded      *)
(* sets and BuildActivity is applied once.                                 *)
(***************************************************************************)
\* the longest text tried
LongLen == 200

\* polls after T0 at which the activity is built
MaxProbePolls == 2

ProbeTexts == {Rep("x", n) : n \in {1, 2, 127, 128, 129, LongLen}}

ProbeInfos ==
  { [PlayingTelegram EXCEPT !.title = title, !.artist = artist, !.album = album,
       !.duration = duration, !.elapsedTime = elapsed, !.timestamp = timestamp]
    : title \in ProbeTexts,
      artist \in {None, Rep("y", 1), Rep("y", 2), Rep("y", LongLen)},
      album \in {None, Rep("z", 1), Rep("z", LongLen)},
      duration \in {None, Some(0), Some(5), Some(200), Some(36000)},
      elapsed \in {None, Some(0), Some(30)},
      timestamp \in {None, Some(T0)} }

ProbeInputs ==
  [info : {getNowPlayingInfo(raw) : raw \in ProbeInfos},
   source : {"telegram", "youtube-music"},
   artworkUrl : ArtworkResults,
   now : {T0 + k * POLL_INTERVAL : k \in 0..MaxProbePolls},
   trackStart : {None, Some(T0)}]

InitActivity ==
  /\ TRAY_MODE = FALSE
  /\ TEST_MODE = FALSE
  /\ clientIdSet = TRUE
  /\ exitCode = None
  /\ shutdownPc = "none"
  /\ retryAt = None
  /\ mainPc = "connect"
  /\ loginState = "pending"
  /\ isPaused = FALSE
  /\ isConnected = FALSE
  /\ rpcUser = FALSE
  /\ trayItem = "Pause"
  /\ now = T0
  /\ lastTrack = None
  /\ currentTrackId = None
  /\ currentTrackStartTime = None
  /\ ytMusicPidCache = <<>>
  /\ artworkCache = <<>>
  /\ ticks = EmptyBag
  /\ presence = "Cleared"
  /\ lastBranch = NoBranch
  /\ probe \in {Some(i) : i \in ProbeInputs}
  /\ result = None

ApplyBuildActivity ==
  /\ probe # None
  /\ result = None
  /\ result' =
       Some(BuildActivity(Val(probe).info, Val(probe).source, Val(probe).artworkUrl,
                          Val(probe).now, Val(probe).trackStart))
  /\ UNCHANGED <<TRAY_MODE, procVars, mainPc, connVars, trayVars, now, trackVars, cacheVars,
                 ticks, presence, lastBranch, probe>>

NextActivity == ApplyBuildActivity

SpecActivity == InitActivity /\ [][NextActivity]_vars

(***************************************************************************)
(* getNowPlayingInfo and getMediaSource on their own: one answer of the    *)
(* media query is normalised, then classified.                             *)
(***************************************************************************)
\* identifiers the media query may report for the client or its parent
\* ("" when it reports none)
ParentIds ==
  {"", "ru.keepcoder.Telegram", "RU.KEEPCODER.TELEGRAM", "app_mode_loader",
   "com.apple.Music"}

BundleIds ==
  {"", "org.telegram.desktop", "app_mode_loader", "APP_MODE_LOADER",
   "com.apple.WebKit.GPU"}

\* answers of the media query; process 0 is the kernel, whose command line
\* `ps` never reports as the web app
SnapshotRaws ==
  {[PlayingTelegram EXCEPT !.fail = f, !.parent = p, !.bundle = b, !.pid = q,
      !.duration = d, !.title = s] :
     f \in {"none", "throw", "error"}, p \in ParentIds, b \in BundleIds,
     q \in {None, Some(0), Some(7)}, d \in {None, Some(0), Some(200)},
     s \in {None, Str_a}}

SnapshotInputs ==
  {i \in [raw : SnapshotRaws, ps : PsOutcomes] :
     i.raw.pid = Some(0) => i.ps # "match"}

InitSnapshot ==
  /\ TRAY_MODE = FALSE
  /\ TEST_MODE = FALSE
  /\ clientIdSet = TRUE
  /\ exitCode = None
  /\ shutdownPc = "none"
  /\ retryAt = None
  /\ mainPc = "connect"
  /\ loginState = "pending"
  /\ isPaused = FALSE
  /\ isConnected = FALSE
  /\ rpcUser = FALSE
  /\ trayItem = "Pause"
  /\ now = T0
  /\ lastTrack = None
  /\ currentTrackId = None
  /\ currentTrackStartTime = None
  /\ ytMusicPidCache = <<>>
  /\ artworkCache = <<>>
  /\ ticks = EmptyBag
  /\ presence = "Cleared"
  /\ lastBranch = NoBranch
  /\ probe \in {Some(i) : i \in SnapshotInputs}
  /\ result = None

\* const info = await getNowPlayingInfo()
ApplyGetNowPlayingInfo ==
  /\ probe # None
  /\ result = None
  /\ result' = Some([stage |-> "info", info |-> getNowPlayingInfo(Val(probe).raw),
                     source |-> ""])
  /\ UNCHANGED <<TRAY_MODE, procVars, mainPc, connVars, trayVars, now, trackVars, cacheVars,
                 ticks, presence, lastBranch, probe>>

\* const mediaSource = await getMediaSource(info)
ApplyGetMediaSource ==
  /\ result # None
  /\ Val(result).stage = "info"
  /\ result' =
       Some([stage |-> "source", info |-> Val(result).info,
             source |-> getMediaSource(Val(result).info,
                                       isYouTubeMusicPid(Val(probe).ps))])
  /\ UNCHANGED <<TRAY_MODE, procVars, mainPc, connVars, trayVars, now, trackVars, cacheVars,
                 ticks, presence, lastBranch, probe>>

NextSnapshot == ApplyGetNowPlayingInfo \/ ApplyGetMediaSource

SpecSnapshot == InitSnapshot /\ [][NextSnapshot]_vars

(***************************************************************************)
(* Text normalisation and the match predicate of the artwork search        *)
(***************************************************************************)
\* the characters matched by \s that occur in the texts tried
Whitespace == {" ", "\t"}

\* the characters of the class [!?.,;:'"()[\]{}]
Punctuation == {"!", "?", ".", ",", ";", ":", "'", "\"", "(", ")", "[", "]", "{", "}"}

\* a precomposed letter: its NFD form is the base letter followed by a
\* combining mark of the range U+0300..U+036F, which the replace then removes
E_ACUTE == "e_acute"

StripDiacritic(c) == IF c = E_ACUTE THEN "e" ELSE c

Uppers ==
  <<"A", "B", "C", "D", "E", "F", "G", "H", "I", "J", "K", "L", "M",
    "N", "O", "P", "Q", "R", "S", "T", "U", "V", "W", "X", "Y", "Z">>

Lowers ==
  <<"a", "b", "c", "d", "e", "f", "g", "h", "i", "j", "k", "l", "m",
    "n", "o", "p", "q", "r", "s", "t", "u", "v", "w", "x", "y", "z">>

LowerChar(c) ==
  IF \E i \in DOMAIN Uppers : Uppers[i] = c
    THEN Lowers[CHOOSE i \in DOMAIN Uppers : Uppers[i] = c]
    ELSE c

\* String.prototype.toLowerCase
LowerCase(s) == [i \in DOMAIN s |-> LowerChar(s[i])]

\* String.prototype.includes
includes(s, sub) ==
  \E i \in 0..(Len(s) - Len(sub)) : SubSeq(s, i + 1, i + Len(sub)) = sub

Min2Set(S) == CHOOSE x \in S : \A y \in S : x <= y

\* String.prototype.indexOf, -1 when absent
indexOf(s, sub) ==
  IF includes(s, sub)
    THEN Min2Set({i \in 0..(Len(s) - Len(sub)) : SubSeq(s, i + 1, i + Len(sub)) = sub})
    ELSE -1

\* the first position from i on that holds no whitespace
RECURSIVE SkipWs(_, _)
SkipWs(s, i) ==
  IF i <= Len(s) /\ s[i] \in Whitespace THEN SkipWs(s, i + 1) ELSE i

\* .replace(/\s+/g, " ")
RECURSIVE CollapseFrom(_, _)
CollapseFrom(s, i) ==
  IF i > Len(s) THEN <<>>
  ELSE IF s[i] \in Whitespace THEN <<" ">> \o CollapseFrom(s, SkipWs(s, i))
  ELSE <<s[i]>> \o CollapseFrom(s, i + 1)

\* String.prototype.trim
RECURSIVE trim(_)
trim(s) ==
  IF s = <<>> THEN s
  ELSE IF Head(s) \in Whitespace THEN trim(Tail(s))
  ELSE IF s[Len(s)] \in Whitespace THEN trim(SubSeq(s, 1, Len(s) - 1))
  ELSE s

normalizeSearchTerm(term) ==
  LET undecorated == [i \in DOMAIN term |-> StripDiacritic(term[i])]
      unpunctuated == SelectSeq(undecorated, LAMBDA c : c \notin Punctuation)
  IN  trim(CollapseFrom(unpunctuated, 1))

\* String.prototype.split(/\s+/): the pieces between the whitespace runs,
\* the empty ones at either end included
RECURSIVE SplitFrom(_, _, _)
SplitFrom(s, i, cur) ==
  IF i > Len(s) THEN <<cur>>
  ELSE IF s[i] \in Whitespace THEN <<cur>> \o SplitFrom(s, SkipWs(s, i), <<>>)
  ELSE SplitFrom(s, i + 1, Append(cur, s[i]))

splitWs(s) == SplitFrom(s, 1, <<>>)

\* words.some(w => others.includes(w))
SomeIn(words, others) ==
  \E i \in DOMAIN words : \E j \in DOMAIN others : others[j] = words[i]

\* the title test alone
matchesResultTitleOnly(res, expectedTitle, expectedArtist) ==
  LET resultTrack == LowerCase(normalizeSearchTerm(res.trackName))
      title == LowerCase(expectedTitle)
      titleWords == SelectSeq(splitWs(title), LAMBDA w : Len(w) > 2)
      resultWords == SelectSeq(splitWs(resultTrack), LAMBDA w : Len(w) > 2)
  IN  \/ SomeIn(titleWords, resultWords)
      \/ includes(resultTrack, title)
      \/ includes(title, resultTrack)

\* the predicate with a result that has no track name turned down
matchesResultNamedOnly(res, expectedTitle, expectedArtist) ==
  LET resultTrack == LowerCase(normalizeSearchTerm(res.trackName))
      resultArtist == LowerCase(normalizeSearchTerm(res.artistName))
      title == LowerCase(expectedTitle)
      artist == LowerCase(expectedArtist)
      artistWords == splitWs(resultArtist)
      artistMatches ==
        \/ expectedArtist = None
        \/ includes(resultArtist, artist)
        \/ includes(artist, resultArtist)
        \/ \E i \in DOMAIN artistWords :
             Len(artistWords[i]) > 2 /\ includes(artist, artistWords[i])
      titleWords == SelectSeq(splitWs(title), LAMBDA w : Len(w) > 2)
      resultWords == SelectSeq(splitWs(resultTrack), LAMBDA w : Len(w) > 2)
      titleMatches ==
        SomeIn(titleWords, resultWords) \/ SomeIn(resultWords, titleWords)
  IN  /\ resultTrack # <<>>
      /\ artistMatches
      /\ (titleMatches \/ includes(resultTrack, title) \/ includes(title, resultTrack))

\* trackName || "" and artistName || "": a missing field and
\* the empty text are both the empty sequence
matchesResult(res, expectedTitle, expectedArtist) ==
  LET resultTrack == LowerCase(normalizeSearchTerm(res.trackName))
      resultArtist == LowerCase(normalizeSearchTerm(res.artistName))
      title == LowerCase(expectedTitle)
      artist == LowerCase(expectedArtist)
      artistWords == splitWs(resultArtist)
      artistMatches ==
        \/ expectedArtist = None
        \/ includes(resultArtist, artist)
        \/ includes(artist, resultArtist)
        \/ \E i \in DOMAIN artistWords :
             Len(artistWords[i]) > 2 /\ includes(artist, artistWords[i])
      titleWords == SelectSeq(splitWs(title), LAMBDA w : Len(w) > 2)
      resultWords == SelectSeq(splitWs(resultTrack), LAMBDA w : Len(w) > 2)
      titleMatches ==
        SomeIn(titleWords, resultWords) \/ SomeIn(resultWords, titleWords)
  IN  artistMatches
      /\ (titleMatches \/ includes(resultTrack, title) \/ includes(title, resultTrack))

(***************************************************************************)
(* The match predicate on its own: the search results and the expected     *)
(* texts are drawn from bounded sets.  fetchArtworkUrl passes normalised   *)
(* expected texts, and so do the inputs here.                              *)
(***************************************************************************)
Txt_LetItBe ==
  <<"L", "e", "t", " ", "I", "t", " ", "B", "e">>

Txt_LetItBeRemastered ==
  <<"L", "e", "t", " ", "I", "t", " ", "B", "e", " ", "(", "R", "e", "m",
    "a", "s", "t", "e", "r", "e", "d", " ", "2", "0", "0", "9", ")">>

Txt_Yesterday ==
  <<"Y", "e", "s", "t", "e", "r", "d", "a", "y">>

Txt_LetItBeLoud ==
  <<" ", "L", "E", "T", " ", " ", "I", "T", ",", "\t", "B", "E", "!", " ">>

Txt_Be ==
  <<"B", "e">>

Txt_Cafe ==
  <<"C", "a", "f", E_ACUTE, " ", "A", "u", " ", "L", "a", "i", "t">>

Txt_CafePlain ==
  <<"c", "a", "f", "e", " ", "a", "u", " ", "l", "a", "i", "t">>

Txt_TheBeatles ==
  <<"T", "h", "e", " ", "B", "e", "a", "t", "l", "e", "s">>

Txt_Beatles ==
  <<"B", "e", "a", "t", "l", "e", "s">>

Txt_Wings ==
  <<"W", "i", "n", "g", "s">>

Txt_PaulAndWings ==
  <<"P", "a", "u", "l", " ", "&", " ", "W", "i", "n", "g", "s">>

MatchResults ==
  [trackName : {None, Txt_LetItBeRemastered, Txt_Yesterday, Txt_LetItBeLoud,
                Txt_Be, Txt_Cafe},
   artistName : {None, Txt_TheBeatles, Txt_Beatles, Txt_Wings, Txt_PaulAndWings}]

MatchInputs ==
  [res : MatchResults,
   expectedTitle : {normalizeSearchTerm(x) :
                      x \in {Txt_LetItBe, Txt_Be, Txt_CafePlain, Txt_Yesterday}},
   expectedArtist : {None} \cup {normalizeSearchTerm(x) :
                      x \in {Txt_TheBeatles, Txt_Wings, Txt_Be}}]

\* the state of the program while a function is examined on its own
AtRest ==
  /\ TRAY_MODE = FALSE
  /\ TEST_MODE = FALSE
  /\ clientIdSet = TRUE
  /\ exitCode = None
  /\ shutdownPc = "none"
  /\ retryAt = None
  /\ mainPc = "connect"
  /\ loginState = "pending"
  /\ isPaused = FALSE
  /\ isConnected = FALSE
  /\ rpcUser = FALSE
  /\ trayItem = "Pause"
  /\ now = T0
  /\ lastTrack = None
  /\ currentTrackId = None
  /\ currentTrackStartTime = None
  /\ ytMusicPidCache = <<>>
  /\ ticks = EmptyBag
  /\ presence = "Cleared"
  /\ lastBranch = NoBranch

InitMatch ==
  /\ AtRest
  /\ artworkCache = <<>>
  /\ probe \in {Some(i) : i \in MatchInputs}
  /\ result = None

ApplyMatchesResult ==
  /\ probe # None
  /\ result = None
  /\ result' =
       Some(matchesResult(Val(probe).res, Val(probe).expectedTitle,
                          Val(probe).expectedArtist))
  /\ UNCHANGED <<TRAY_MODE, procVars, mainPc, connVars, trayVars, now, trackVars, cacheVars,
                 ticks, presence, lastBranch, probe>>

NextMatch == ApplyMatchesResult

SpecMatch == InitMatch /\ [][NextMatch]_vars

(***************************************************************************)
(* fetchArtworkUrl on its own: one call at a time, each provider request   *)
(* an await of its own.  probe holds the arguments of the call, result its *)
(* progress.                                                               *)
(***************************************************************************)
\* calls of fetchArtworkUrl made in a run
MaxFetches == 2

\* the separators of getFirstArtist, in the order tried
Separators ==
  <<<<",">>, <<" ", "&", " ">>, <<" ", "f", "e", "a", "t", ".">>,
    <<" ", "f", "t", ".">>,
    <<" ", "f", "e", "a", "t", "u", "r", "i", "n", "g", " ">>,
    <<" ", "x", " ">>>>

\* the loop body of getFirstArtist for the separators from k on
RECURSIVE CutAtSeparators(_, _)
CutAtSeparators(s, k) ==
  IF k > Len(Separators) THEN s
  ELSE LET idx == indexOf(LowerCase(s), LowerCase(Separators[k]))
       IN  CutAtSeparators(IF idx > 0 THEN SubSeq(s, 1, idx) ELSE s, k + 1)

getFirstArtist(artist) == trim(CutAtSeparators(artist, 1))

(***************************************************************************)
(* getFirstArtist on its own                                               *)
(***************************************************************************)
\* what may stand between two names of an artist credit
Joiners ==
  {<<>>, <<",">>, <<",", " ">>, <<" ", "&", " ">>, <<" ", "f", "e", "a", "t", ".", " ">>,
   <<" ", "F", "t", ".", " ">>, <<" ", "f", "e", "a", "t", "u", "r", "i", "n", "g", " ">>,
   <<" ", "x", " ">>, <<" ", "x">>, <<" ">>}

\* artist credits: up to three names and what joins them
ArtistInputs ==
  {a \o j1 \o b \o j2 \o c :
     a \in {<<>>, <<"A">>, <<" ", "A", "l">>}, j1 \in Joiners,
     b \in {<<>>, <<"B">>}, j2 \in Joiners, c \in {<<"C">>, <<"C", " ">>}}

InitFirstArtist ==
  /\ AtRest
  /\ artworkCache = <<>>
  /\ probe \in {Some(a) : a \in ArtistInputs}
  /\ result = None

ApplyGetFirstArtist ==
  /\ probe # None
  /\ result = None
  /\ result' = Some(getFirstArtist(Val(probe)))
  /\ UNCHANGED <<TRAY_MODE, procVars, mainPc, connVars, trayVars, now, trackVars, cacheVars,
                 ticks, presence, lastBranch, probe>>

NextFirstArtist == ApplyGetFirstArtist

SpecFirstArtist == InitFirstArtist /\ [][NextFirstArtist]_vars

\* `${a} ${b}`
Spaced(a, b) == a \o <<" ">> \o b

\* the ordered search terms of fetchArtworkUrl
SearchStrategies(title, artist) ==
  LET normalizedTitle == normalizeSearchTerm(title)
      normalizedArtist == IF artist # None THEN normalizeSearchTerm(artist) ELSE None
      firstArtistRaw == IF artist # None THEN trim(getFirstArtist(artist)) ELSE None
      firstArtist ==
        IF firstArtistRaw # None THEN normalizeSearchTerm(firstArtistRaw) ELSE None
  IN  (IF artist # None THEN <<Spaced(trim(title), trim(artist))>> ELSE <<>>)
      \o <<trim(title)>>
      \o (IF normalizedArtist # None
            THEN <<Spaced(normalizedTitle, normalizedArtist)>> ELSE <<>>)
      \o (IF firstArtist # None /\ firstArtist # normalizedArtist
            THEN <<Spaced(normalizedTitle, firstArtist)>> ELSE <<>>)
      \o <<normalizedTitle>>
      \o (IF firstArtist # None THEN <<firstArtist>> ELSE <<>>)

\* What one provider request comes to: a matching result with artwork, no
\* such result, a non-success HTTP status, fetch() rejecting, a body that is
\* not JSON, JSON without the result list.
ProviderOutcomes == {"found", "none", "notOk", "throw", "badJson", "noList"}

\* whether searchDeezer / searchItunes throws on the outcome: Deezer tests
\* `!data.data`, iTunes iterates data.results untested
ProviderThrows(provider, outcome) ==
  \/ outcome \in {"throw", "badJson"}
  \/ provider = "itunes" /\ outcome = "noList"

\* the tracks fetchArtworkUrl is called for; the last two are different
\* tracks whose title and artist concatenate to the same text
FetchInputs ==
  [title : {Txt_LetItBe, Txt_Cafe},
   artist : {None, Txt_TheBeatles, Txt_PaulAndWings}]
    \cup {[title |-> Str_a_b, artist |-> Str_c], [title |-> Str_a, artist |-> Str_b_c]}

\* the artwork of a matching result of iTunes, "100x100" replaced
ItunesArtworkUrl == <<"https://cdn.example/512x512bb.jpg">>

\* what searchDeezer / searchItunes returns for a matching result
ProviderArtwork(provider) ==
  IF provider = "deezer" THEN ArtworkUrl ELSE ItunesArtworkUrl

\* the progress of a call: pc is "deezer" or "itunes" (the request awaited)
\* or "done"; i is the index of the search term; requests counts the
\* provider requests made; hit tells a cache hit; calls counts the calls;
\* log lists the requests made, as <<provider, index of the search term>>;
\* foundAt is the position in log of the request that found artwork (0
\* while none has)
FetchAt(pc, i, terms, requests, value, hit, calls) ==
  [pc |-> pc, i |-> i, terms |-> terms, requests |-> requests, value |-> value,
   hit |-> hit, calls |-> calls,
   log |-> IF pc = "deezer" THEN <<<<"deezer", i>>>> ELSE <<>>,
   foundAt |-> 0]

\* the loop with iTunes left out
AfterNoResultDeezerOnly(f) ==
  IF f.i < f.terms
    THEN [f EXCEPT !.pc = "deezer", !.i = @ + 1, !.requests = @ + 1,
                   !.log = Append(@, <<"deezer", f.i + 1>>)]
    ELSE [f EXCEPT !.pc = "done", !.value = None]

\* the loop of fetchArtworkUrl after a request without result: iTunes after
\* Deezer for the same term, then Deezer for the next term, null after the
\* last
AfterNoResult(f) ==
  IF f.pc = "deezer"
    THEN [f EXCEPT !.pc = "itunes", !.requests = @ + 1,
                   !.log = Append(@, <<"itunes", f.i>>)]
  ELSE IF f.i < f.terms
    THEN [f EXCEPT !.pc = "deezer", !.i = @ + 1, !.requests = @ + 1,
                   !.log = Append(@, <<"deezer", f.i + 1>>)]
  ELSE [f EXCEPT !.pc = "done", !.value = None]

InitArtwork ==
  /\ AtRest
  /\ artworkCache = <<>>
  /\ probe \in {Some(i) : i \in FetchInputs}
  /\ result = None

\* fetchArtworkUrl up to its first provider request
StartFetch(calls) ==
  LET title == Val(probe).title
      artist == Val(probe).artist
      cacheKey == CacheKey(title, artist)
  IN  IF cacheKey \in DOMAIN artworkCache
        THEN /\ result' = Some(FetchAt("done", 0, 0, 0, artworkCache[cacheKey], TRUE, calls))
             /\ UNCHANGED artworkCache
        ELSE /\ result' = Some(FetchAt("deezer", 1, Len(SearchStrategies(title, artist)),
                                       1, None, FALSE, calls))
             /\ UNCHANGED artworkCache

FirstFetch ==
  /\ result = None
  /\ StartFetch(1)
  /\ UNCHANGED <<TRAY_MODE, procVars, mainPc, connVars, trayVars, now, trackVars,
                 ytMusicPidCache, ticks, presence, lastBranch, probe>>

\* a later call, for any of the tracks
NextFetch(input) ==
  /\ result # None
  /\ Val(result).pc = "done"
  /\ Val(result).calls < MaxFetches
  /\ probe' = Some(input)
  /\ LET cacheKey == CacheKey(input.title, input.artist)
     IN  result' =
           IF cacheKey \in DOMAIN artworkCache
             THEN Some(FetchAt("done", 0, 0, 0, artworkCache[cacheKey], TRUE,
                               Val(result).calls + 1))
             ELSE Some(FetchAt("deezer", 1,
                               Len(SearchStrategies(input.title, input.artist)),
                               1, None, FALSE, Val(result).calls + 1))
  /\ UNCHANGED <<TRAY_MODE, procVars, mainPc, connVars, trayVars, now, trackVars, cacheVars,
                 ticks, presence, lastBranch>>

\* a provider request settles and fetchArtworkUrl runs on to its next await
\* or to its return
ProviderDone(outcome) ==
  /\ result # None
  /\ Val(result).pc \in {"deezer", "itunes"}
  /\ LET f == Val(result)
         cacheKey == CacheKey(Val(probe).title, Val(probe).artist)
         after ==
           IF ProviderThrows(f.pc, outcome)
             THEN [f EXCEPT !.pc = "done", !.value = None]
           ELSE IF outcome = "found"
             THEN [f EXCEPT !.pc = "done", !.value = ProviderArtwork(f.pc),
                            !.foundAt = Len(f.log)]
           ELSE AfterNoResult(f)
     IN  /\ result' = Some(after)
         /\ artworkCache' =
              IF after.pc = "done" THEN (cacheKey :> after.value) @@ artworkCache
              ELSE artworkCache
  /\ UNCHANGED <<TRAY_MODE, procVars, mainPc, connVars, trayVars, now, trackVars,
                 ytMusicPidCache, ticks, presence, lastBranch, probe>>

LaterFetch == \E input \in FetchInputs : NextFetch(input)

ProviderAnswers == \E outcome \in ProviderOutcomes : ProviderDone(outcome)

NextArtwork ==
  \/ FirstFetch
  \/ LaterFetch
  \/ ProviderAnswers

SpecArtwork == InitArtwork /\ [][NextArtwork]_vars

(***************************************************************************)
(* What a step does to the presence protocol                               *)
(***************************************************************************)
\* a tick calls rpc.user.setActivity in this step
SetActivityCalled == NumAt(ticks', {"set"}) > NumAt(ticks, {"set"})

\* a tick calls rpc.user.clearActivity in this step
TickClearCalled == NumAt(ticks', {"clear"}) > NumAt(ticks, {"clear"})

\* the Pause handler calls rpc.user.clearActivity in this step
TrayClearCalled == trayItem = "Pause" /\ trayItem' = "Resume" /\ rpcUser

\* a tick takes the else branch of updatePresence in this step
StoppedBranchTaken ==
  /\ ~TEST_MODE
  /\ mainPc' # "exited"
  /\ NumAt(ticks', {"query", "ps"}) < NumAt(ticks, {"query", "ps"})
  /\ NumAt(ticks', {"artwork", "set"}) = NumAt(ticks, {"artwork", "set"})

(***************************************************************************)
(* Claims                                                                  *)
(***************************************************************************)

\* C1: clearActivity is called only when the presence is Active, so at most
\* once per Active -> Cleared transition, whether by a tick or by the tray.
C1_ClearOnlyWhenActive ==
  [][(TickClearCalled \/ TrayClearCalled) => presence = "Active"]_vars

\* C2: while isPaused is true no tick pushes setActivity or clearActivity,
\* also not a tick that was suspended when Pause was clicked.
C2_NoTickPushWhilePaused ==
  [][(SetActivityCalled \/ TickClearCalled) => ~isPaused]_vars

\* C3: ticks are strictly serialized: at most one invocation of
\* updatePresence is in progress at any time.
C3_TicksSerialized == InFlight <= 1

\* C4: no setActivity or clearActivity call is made, by a tick or by the
\* tray, while isConnected is false.
C4_NoCallWhileDisconnected ==
  [][(SetActivityCalled \/ TickClearCalled \/ TrayClearCalled) => isConnected]_vars

\* C5: a tick that finds no supported source, no title or no active playback
\* clears exactly when the presence is Active (one clearActivity call, and
\* lastTrack, currentTrackId, currentTrackStartTime reset to null), and is a
\* no-op otherwise.
C5_StoppedTickClearsIffActive ==
  [][StoppedBranchTaken =>
       IF presence = "Active"
         THEN /\ TickClearCalled
              /\ presence' = "Cleared"
              /\ lastTrack' = None
              /\ currentTrackId' = None
              /\ currentTrackStartTime' = None
         ELSE /\ ~TickClearCalled
              /\ UNCHANGED <<presence, trackVars>>]_vars

\* C6: when two successive playing ticks carry different (title, artist,
\* album) triples, the second one detects a track change and resets
\* currentTrackStartTime.
C6_DifferentTripleIsNewTrack == lastBranch.rel = "changed" => lastBranch.isNew

\* C7: from a playing tick on, as long as the playing ticks that follow carry
\* the same (title, artist, album) triple, lastTrack and
\* currentTrackStartTime are not modified.
C7_SameTripleKeepsStart ==
  [][(/\ lastBranch.kind = "playing"
      /\ lastBranch'.kind = "playing"
      /\ lastBranch'.triple = lastBranch.triple)
     => UNCHANGED <<lastTrack, currentTrackStartTime>>]_vars

\* C7 witness: a second playing tick of the same triple has run at a later
\* time than the first, and the start time is still the first one's.
C7_Witness ==
  /\ lastBranch.rel = "same"
  /\ currentTrackStartTime # None
  /\ Val(currentTrackStartTime) < now

\* C8: with elapsedTime and timestamp both present, the pushed
\* startTimestamp is timestamp - elapsedTime * 1000, whatever `now` is.
C8_StartIndependentOfNow ==
  (/\ result # None
   /\ Val(probe).info.elapsedTime # None
   /\ Val(probe).info.timestamp # None)
  => Val(result).startTimestamp =
       Val(Val(probe).info.timestamp) - Val(Val(probe).info.elapsedTime) * 1000

\* C8 witness: elapsed 30 s sampled at T0, pushed one poll later: the start
\* is now - 35000.
C8_Witness ==
  /\ result # None
  /\ Val(probe).info.elapsedTime = Some(30)
  /\ Val(probe).info.timestamp = Some(T0)
  /\ Val(probe).now = T0 + POLL_INTERVAL
  /\ Val(result).startTimestamp = Val(probe).now - 35000

\* C9: setActivity is called only for a snapshot with a classified source, a
\* non-empty title, isPlaying true and a present playbackRate > 0.
C9_PushOnlyWhenPlaying ==
  \A t \in DOMAIN ticks :
    t.pc = "set" =>
      /\ t.source \in {"telegram", "youtube-music"}
      /\ Len(t.info.title) > 0
      /\ t.info.isPlaying = TRUE
      /\ t.info.playbackRate # None
      /\ Val(t.info.playbackRate) > 0

\* C9 witness: setActivity has been called for a YouTube Music snapshot.
C9_Witness ==
  \E t \in DOMAIN ticks : t.pc = "set" /\ t.source = "youtube-music"

TextFields(activity) ==
  {activity.name, activity.details, activity.state, activity.largeImageText,
   activity.smallImageText}

\* C10: every text field passed to setActivity has between 2 and 128
\* characters.
C10_TextFieldLengths ==
  result # None => \A s \in TextFields(Val(result)) : Len(s) >= 2 /\ Len(s) <= 128

\* C11: two classification calls for the same processId made less than
\* YT_MUSIC_CACHE_TTL apart trigger at most one `ps` lookup, also when the
\* second call starts while the first one's lookup is still pending.
C11_OneLookupPerPid ==
  \A t \in DOMAIN ticks :
    t.pc = "ps" =>
      /\ ticks[t] = 1
      /\ \A u \in DOMAIN ticks :
           (/\ u.pc = "ps"
            /\ u.info.processIdentifier = t.info.processIdentifier
            /\ u.psNow - t.psNow < YT_MUSIC_CACHE_TTL
            /\ t.psNow - u.psNow < YT_MUSIC_CACHE_TTL)
           => u = t

\* C14: an entry of the artwork cache, once written by a completed
\* fetchArtworkUrl, keeps its value for the life of the process, so every
\* later call with the same (title, artist) returns the same result.
C14_ArtworkMemoized ==
  [][\A k \in DOMAIN artworkCache :
       k \in DOMAIN artworkCache' => artworkCache'[k] = artworkCache[k]]_vars

\* the text a comparison is made on: normalised and in lower case
Canon(s) == LowerCase(normalizeSearchTerm(s))

\* s holds sub as a contiguous part
Contains(s, sub) ==
  \E i \in 1..(Len(s) + 1) : \E j \in 0..Len(s) : SubSeq(s, i, j) = sub

\* the maximal whitespace-free parts of s
TokenSet(s) ==
  {SubSeq(s, i, j) : <<i, j>> \in
     {p \in (1..Len(s)) \X (1..Len(s)) :
        /\ p[1] <= p[2]
        /\ \A k \in p[1]..p[2] : s[k] \notin Whitespace
        /\ (p[1] = 1 \/ s[p[1] - 1] \in Whitespace)
        /\ (p[2] = Len(s) \/ s[p[2] + 1] \in Whitespace)}}

LongTokens(s) == {w \in TokenSet(s) : Len(w) > 2}

\* the match predicate as the specification words it
MatchesAsSpecified(res, expectedTitle, expectedArtist) ==
  LET ra == Canon(res.artistName)
      rt == Canon(res.trackName)
      a == Canon(expectedArtist)
      ti == Canon(expectedTitle)
  IN  /\ \/ expectedArtist = None
         \/ Contains(ra, a)
         \/ Contains(a, ra)
         \/ \E w \in LongTokens(ra) : Contains(a, w)
      /\ \/ LongTokens(ti) \cap LongTokens(rt) # {}
         \/ Contains(rt, ti)
         \/ Contains(ti, rt)

\* C12: matchesResult is true iff the artist matches (none expected, or one
\* artist text contains the other, or a result-artist token longer than 2
\* is part of the expected artist) and the title matches (a common token
\* longer than 2, or one title contains the other); "Let It Be (Remastered
\* 2009)" by The Beatles matches "Let It Be", "Yesterday" does not.
C12_MatchesResultAsSpecified ==
  /\ result # None =>
       Val(result) = MatchesAsSpecified(Val(probe).res, Val(probe).expectedTitle,
                                        Val(probe).expectedArtist)
  /\ matchesResult([trackName |-> Txt_LetItBeRemastered, artistName |-> Txt_TheBeatles],
                   Txt_LetItBe, Txt_TheBeatles)
  /\ ~matchesResult([trackName |-> Txt_Yesterday, artistName |-> Txt_TheBeatles],
                    Txt_LetItBe, Txt_TheBeatles)

\* C12 witness: the remastered title was accepted for "Let It Be" through
\* the token "let", with the artist found inside the result's artist.
C12_Witness ==
  /\ result = Some(TRUE)
  /\ Val(probe).res = [trackName |-> Txt_LetItBeRemastered, artistName |-> Txt_TheBeatles]
  /\ Val(probe).expectedTitle = Txt_LetItBe
  /\ Val(probe).expectedArtist = Txt_TheBeatles

\* C13: a failing provider request (fetch rejecting, non-success status,
\* malformed payload) counts as "no result" for that request: a call of
\* fetchArtworkUrl that finds nothing has asked both providers for every
\* search term.
C13_FailureDoesNotAbort ==
  (/\ result # None
   /\ Val(result).pc = "done"
   /\ ~Val(result).hit
   /\ Val(result).value = None)
  => Val(result).requests = 2 * Val(result).terms

\* the process ends in this step
ProcessExits == mainPc # "exited" /\ mainPc' = "exited"

\* C15: once polling has started, no failure of the media query, of a search
\* provider or of the presence connection (a push or clear call rejecting, a
\* disconnect) ends the polling loop: the process leaves it only on Quit or
\* on a signal.
C15_PollingSurvivesErrors ==
  [][(mainPc = "polling" /\ shutdownPc = "none" /\ ProcessExits)
     => exitCode' \in {Some(0), Some(KILLED)}]_vars

\* C16: whenever SIGINT or SIGTERM ends the process, it ends with status 0
\* after the presence was cleared and the connection destroyed.
C16_SignalShutsDownCleanly ==
  [][(/\ ~TEST_MODE
      /\ ProcessExits
      /\ (shutdownPc # "none" \/ exitCode' = Some(KILLED)))
     => (shutdownPc = "destroy" /\ exitCode' = Some(0) /\ presence' = "Cleared")]_vars

\* a call of fetchArtworkUrl returns to its tick in this step
ArtworkReturned ==
  mainPc' # "exited" /\ NumAt(ticks', {"artwork"}) < NumAt(ticks, {"artwork"})

\* C17: a rejected rpc.login() is handled by mode.  With the tray the process
\* stays, the next attempt is due 30 s later and not made earlier, and
\* nothing is pushed before "ready"; without the tray the process ends with
\* a non-zero status before any tick has run.
C17_ConnectFailureByMode ==
  /\ [](TRAY_MODE /\ ~TEST_MODE /\ loginState \in {"pending", "retryWait"}
        => presence = "Cleared" /\ ticks = EmptyBag)
  /\ [][/\ (loginState = "pending" /\ loginState' \in {"retryWait", "failed"})
           => IF TRAY_MODE
                THEN /\ mainPc' = mainPc
                     /\ mainPc' # "exited"
                     /\ loginState' = "retryWait"
                     /\ retryAt' = Some(now + 30000)
                ELSE /\ mainPc' = "exited"
                     /\ exitCode' \notin {None, Some(0)}
                     /\ ticks = EmptyBag
                     /\ lastBranch = NoBranch
        /\ (loginState = "retryWait" /\ loginState' = "pending")
           => now >= Val(retryAt)]_vars

\* C17 witness: with the tray, the login failed at T0; the process is still
\* polling, nothing is displayed and the retry is due at T0 + 30000.
C17_Witness ==
  /\ TRAY_MODE
  /\ loginState = "retryWait"
  /\ retryAt = Some(T0 + 30000)
  /\ mainPc = "polling"
  /\ exitCode = None
  /\ presence = "Cleared"

\* C18 as stated: without the credential the process ends with a non-zero
\* status at startup, before a client exists and before any tick.
C18_NoCredentialIsFatal ==
  ~clientIdSet =>
    /\ mainPc = "exited"
    /\ exitCode = Some(1)
    /\ loginState = "none"
    /\ ticks = EmptyBag

\* C18 amended: outside test mode, without the credential the process ends
\* with a non-zero status at startup, before a client exists, before any
\* connection attempt and before any tick.
C18_NoCredentialIsFatalOutsideTestMode ==
  (~TEST_MODE /\ ~clientIdSet) =>
    /\ mainPc = "exited"
    /\ exitCode = Some(1)
    /\ loginState = "none"
    /\ ~rpcUser
    /\ ticks = EmptyBag
    /\ presence = "Cleared"

\* C18 witness: started without --test and without the credential, the
\* process has ended with status 1.
C18_Witness == ~TEST_MODE /\ ~clientIdSet /\ mainPc = "exited" /\ exitCode = Some(1)

\* the fallback asset the specification names for a source
FallbackIcon(source) ==
  IF source = "telegram" THEN <<"telegram">> ELSE <<"youtube-music">>

\* C19: the largeImageKey of every setActivity call is the artwork URL when
\* fetchArtworkUrl returned one and else the fallback asset of the source;
\* a call of fetchArtworkUrl that finds nothing is cached and is followed by
\* the push all the same.
C19_ArtworkOrFallback ==
  /\ [](\A t \in DOMAIN ticks :
          t.pc = "set" =>
            /\ t.image = IF t.artwork # None THEN t.artwork ELSE FallbackIcon(t.source)
            /\ CacheKey(t.info.title, t.info.artist) \in DOMAIN artworkCache)
  /\ [][ArtworkReturned => SetActivityCalled]_vars

\* C19 witness: a YouTube Music track without artwork is being pushed with
\* the youtube-music asset, the miss being cached.
C19_Witness ==
  \E t \in DOMAIN ticks :
    /\ t.pc = "set"
    /\ t.source = "youtube-music"
    /\ t.artwork = None
    /\ t.image = <<"youtube-music">>
    /\ artworkCache[CacheKey(t.info.title, t.info.artist)] = None

\* C20: in test mode no client is created or connected, setActivity and
\* clearActivity are never called, and the credential is not needed: the
\* program only polls and classifies.
C20_TestModeNeverTouchesPresence ==
  TEST_MODE =>
    /\ loginState = "none"
    /\ ~rpcUser
    /\ ~isConnected
    /\ presence = "Cleared"
    /\ shutdownPc = "none"
    /\ exitCode # Some(1)
    /\ \A t \in DOMAIN ticks : t.pc \in {"query", "ps"}

\* C20 witness: started with --test and without the credential, the
\* program is polling and a runTest is classifying an app_mode_loader
\* process.
C20_Witness ==
  /\ TEST_MODE
  /\ ~clientIdSet
  /\ mainPc = "polling"
  /\ \E t \in DOMAIN ticks : t.pc = "ps"

\* C21: at most one call of fetchArtworkUrl is in flight for a cache key: no
\* second resolution for a key starts while a first one has not yet written
\* the cache.
C21_OneResolutionPerKey ==
  \A t \in DOMAIN ticks :
    t.pc = "artwork" =>
      /\ ticks[t] = 1
      /\ \A u \in DOMAIN ticks :
           (/\ u.pc = "artwork"
            /\ CacheKey(u.info.title, u.info.artist)
                 = CacheKey(t.info.title, t.info.artist))
           => u = t

\* the start of the progress is computed from the local record
UsesLocalStart(info) == info.elapsedTime = None \/ info.timestamp = None

\* C22: when elapsedTime or timestamp is absent, the startTimestamp pushed
\* for the track being played is the time at which this track was first
\* detected as playing, the same on every tick of the track.
C22_FallbackStartIsFirstDetection ==
  \A t \in DOMAIN ticks :
    (/\ t.pc = "set"
     /\ UsesLocalStart(t.info)
     /\ lastBranch.kind = "playing"
     /\ lastBranch.triple = Triple(t.info))
    => t.start = lastBranch.since

\* C23: the pushed endTimestamp is startTimestamp + duration * 1000 whenever
\* the duration is present, zero included, and is absent exactly when the
\* duration is absent.
C23_EndIsStartPlusDuration ==
  result # None =>
    Val(result).endTimestamp =
      IF Val(probe).info.duration # None
        THEN Some(Val(result).startTimestamp + Val(Val(probe).info.duration) * 1000)
        ELSE None

\* C23 witness: a track of duration zero is pushed with an end equal to its
\* start.
C23_Witness ==
  /\ result # None
  /\ Val(probe).info.duration = Some(0)
  /\ Val(result).endTimestamp = Some(Val(result).startTimestamp)

\* The classification as the specification states it, from the identity the
\* media query reported and the answer of the process lookup.
ClassifyAsSpecified(raw, lookupMatches) ==
  LET identityAbsent == raw.fail # "none" \/ (raw.parent = "" /\ raw.bundle = "")
      effective == IF raw.parent # "" THEN raw.parent ELSE raw.bundle
      allowListed == \E id \in TELEGRAM_BUNDLE_IDS : toLowerCase(id) = toLowerCase(effective)
  IN  IF identityAbsent THEN ""
      ELSE IF allowListed THEN "telegram"
      ELSE IF effective = APP_MODE_LOADER /\ raw.pid # None
        THEN (IF lookupMatches THEN "youtube-music" ELSE "")
      ELSE ""

\* C24: the source of every snapshot is the one the stated algorithm gives:
\* none without an identity; else Telegram when the parent's identifier (or,
\* without a parent, the client's own) is on the allow-list up to case; else
\* YouTube Music when that identifier is the loader's, a process id is
\* present and the lookup matches; none in every other case.
C24_ClassifyAsSpecified ==
  (result # None /\ Val(result).stage = "source")
  => Val(result).source =
       ClassifyAsSpecified(Val(probe).raw, Val(probe).ps = "match")

\* C24 witness: a helper process of Telegram, reported under its own
\* identifier with Telegram (in capitals) as parent, is classified Telegram.
C24_Witness ==
  /\ result # None
  /\ Val(result).stage = "source"
  /\ Val(probe).raw.fail = "none"
  /\ Val(probe).raw.parent = "RU.KEEPCODER.TELEGRAM"
  /\ Val(probe).raw.bundle = "app_mode_loader"
  /\ Val(result).source = "telegram"

\* C25: when `ps` fails, the lookup returns false instead of raising: the
\* tick goes on as for a process that is not the web app (recorded as such,
\* handled by the not-playing branch), and the process and its timer stay.
C25_LookupFailureIsNonMatch ==
  [][\A t \in DOMAIN ticks :
       PsDone(t, "throw") =>
         /\ exitCode' = None
         /\ mainPc' \in {"polling", "initialRun"}
         /\ ytMusicPidCache'[Val(t.info.processIdentifier)].isYtMusic = FALSE
         /\ ~TEST_MODE => lastBranch'.kind = "stopped"]_vars

\* C25 witness: the lookup for the loader's process (7) did not report the
\* web app, the tick was handled as not playing and polling goes on.
C25_Witness ==
  /\ ~TEST_MODE
  /\ mainPc = "polling"
  /\ exitCode = None
  /\ 7 \in DOMAIN ytMusicPidCache
  /\ ytMusicPidCache[7].isYtMusic = FALSE
  /\ lastBranch.kind = "stopped"

\* the requests a call makes when none finds artwork: for every search
\* term in turn, Deezer and then iTunes
RequestOrder(terms) ==
  [n \in 1..(2 * terms) |->
     <<IF n % 2 = 1 THEN "deezer" ELSE "itunes", (n + 1) \div 2>>]

\* C26: the requests of a call of fetchArtworkUrl are, in order, Deezer and
\* then iTunes for the first search term, then for the second, and so on;
\* the first request that finds artwork is the last one made, and the call
\* returns the artwork of that request.
C26_FirstSuccessInOrder ==
  (result # None /\ ~Val(result).hit) =>
    LET f == Val(result)
    IN  /\ f.log = SubSeq(RequestOrder(f.terms), 1, Len(f.log))
        /\ f.foundAt # 0 =>
             /\ f.foundAt = Len(f.log)
             /\ f.pc = "done"
             /\ f.value = ProviderArtwork(f.log[f.foundAt][1])
        /\ (f.pc = "done" /\ f.value # None) => f.foundAt # 0

\* C26 witness: nothing found for the first search term at either provider,
\* nothing at Deezer for the second, then iTunes finds artwork: four
\* requests, the iTunes artwork returned.
C26_Witness ==
  /\ result # None
  /\ Val(result).pc = "done"
  /\ Val(result).log = <<<<"deezer", 1>>, <<"itunes", 1>>, <<"deezer", 2>>, <<"itunes", 2>>>>
  /\ Val(result).foundAt = 4
  /\ Val(result).value = ItunesArtworkUrl

\* where the separators occur in an artist credit, whatever the case
SeparatorPositions(artist) ==
  {indexOf(LowerCase(artist), LowerCase(Separators[k])) : k \in DOMAIN Separators}
    \ {-1}

\* the first artist as the specification states it
FirstArtistAsSpecified(artist) ==
  IF SeparatorPositions(artist) = {} THEN trim(artist)
  ELSE trim(SubSeq(artist, 1, Min2Set(SeparatorPositions(artist))))

\* C27: getFirstArtist returns the trimmed text before the leftmost
\* occurrence, whatever the case, of any of the separators, and the trimmed
\* credit itself when none occurs.
C27_CutAtLeftmostSeparator ==
  result # None => Val(result) = FirstArtistAsSpecified(Val(probe))

\* the fields of the media query's answer that the snapshot copies
CopiedFields ==
  {"title", "artist", "album", "duration", "elapsedTime", "timestamp", "playbackRate"}

\* C28: when the media query throws, answers something unparsable or
\* answers with an error indicator, getNowPlayingInfo returns a snapshot
\* with every field absent and isPlaying false; otherwise every field the
\* answer lacks is absent in the snapshot.
C28_FailureGivesEmptySnapshot ==
  result # None =>
    LET raw == Val(probe).raw
        info == Val(result).info
    IN  /\ raw.fail # "none" =>
             /\ \A f \in CopiedFields : info[f] = None
             /\ info.bundleIdentifier = ""
             /\ info.processIdentifier = None
             /\ info.isPlaying = FALSE
        /\ raw.fail = "none" =>
             /\ \A f \in CopiedFields : raw[f] = None => info[f] = None
             /\ raw.pid = None => info.processIdentifier = None
             /\ (raw.parent = "" /\ raw.bundle = "") => info.bundleIdentifier = ""

\* C28 witness: the script answered with an error indicator while a track
\* was playing; the snapshot is the empty one.
C28_Witness ==
  /\ result # None
  /\ Val(probe).raw.fail = "error"
  /\ Val(probe).raw.isPlaying
  /\ Val(probe).raw.title # None
  /\ Val(result).info = EmptyInfo

\* C29: a result cached for one (title, artist) pair is never returned for
\* another pair: when the first call of a run has resolved a pair and the
\* next call is for a different pair, that call does not hit the cache.
C29_CacheEntryPerPair ==
  [][(/\ result # None
      /\ Val(result).pc = "done"
      /\ Val(result).calls = 1
      /\ result' # None
      /\ Val(result').calls = 2
      /\ probe' # probe)
     => ~Val(result').hit]_vars

\* C30: while the process runs, whenever the presence shown is Active (the
\* last call made on the presence protocol was setActivity), lastTrack is
\* set, so that the next tick that finds nothing playing clears the presence.
C30_ActiveImpliesLastTrack ==
  (mainPc # "exited" /\ presence = "Active") => lastTrack # None

\* C31: after Pause and then Resume, with the same track playing all along,
\* the tick that next takes the playing branch does not take the track for
\* a new one: lastTrack and currentTrackStartTime are what they were at the
\* Pause, and the tick goes on to setActivity (at once on a cache hit, after
\* the artwork search otherwise).
C31_ResumeShowsSameTrackAgain ==
  [][(/\ mainPc' # "exited"
      /\ lastBranch.pause = "resumed"
      /\ lastBranch'.pause = "after")
     => /\ ~lastBranch'.isNew
        /\ lastTrack' # None
        /\ lastTrack' = lastBranch.kept.lastTrack
        /\ currentTrackStartTime' = lastBranch.kept.start
        /\ \/ SetActivityCalled
           \/ NumAt(ticks', {"artwork"}) > NumAt(ticks, {"artwork"})]_vars

\* C31 witness: paused and resumed during a track, the presence is Active
\* again with the bookkeeping of before the Pause.
C31_Witness ==
  /\ mainPc = "polling"
  /\ ~isPaused
  /\ isConnected
  /\ lastBranch.pause = "after"
  /\ ~lastBranch.isNew
  /\ presence = "Active"
  /\ lastTrack # None
  /\ lastTrack = lastBranch.kept.lastTrack
  /\ currentTrackStartTime = lastBranch.kept.start

\* C32: a null written to the artwork cache (as the catch branch of
\* fetchArtworkUrl does when a provider call throws) stays for the life of
\* the process, and no tick starts a search for that key again.
C32_FailureIsNeverRetried ==
  [][\A k \in DOMAIN artworkCache :
       (artworkCache[k] = None /\ mainPc' # "exited") =>
         /\ k \in DOMAIN artworkCache'
         /\ artworkCache'[k] = None
         /\ \A t \in DOMAIN ticks' :
              (t.pc = "artwork" /\ CacheKey(t.info.title, t.info.artist) = k)
              => t \in DOMAIN ticks]_vars

\* C33: the tick that calls clearActivity has set lastTrack, currentTrackId
\* and currentTrackStartTime to null by the time the call is made; a
\* rejection of the call does not bring them back; and a not-playing tick
\* that finds lastTrack null makes no clear call, so a failed clear is not
\* attempted again.
C33_ResetBeforeClearIsAwaited ==
  [][/\ TickClearCalled =>
          /\ lastTrack' = None
          /\ currentTrackId' = None
          /\ currentTrackStartTime' = None
     /\ (\E t \in DOMAIN ticks : t.pc = "clear" /\ CallDone(t, "reject", "warn"))
          => UNCHANGED trackVars
     /\ (StoppedBranchTaken /\ lastTrack = None) => ~TickClearCalled]_vars

\* C33 witness: a tick found nothing playing after a track and awaits its
\* clearActivity call, the bookkeeping already null.
C33_Witness ==
  /\ mainPc = "polling"
  /\ lastBranch.kind = "stopped"
  /\ presence = "Cleared"
  /\ lastTrack = None
  /\ currentTrackId = None
  /\ currentTrackStartTime = None
  /\ \E t \in DOMAIN ticks : t.pc = "clear"

\* C34: a search result without track name and without artist name (missing
\* or empty) matches every expected title and every expected artist.
C34_EmptyResultMatchesAll ==
  (/\ result # None
   /\ Val(probe).res.trackName = None
   /\ Val(probe).res.artistName = None)
  => Val(result) = TRUE

\* C34 witness: the nameless result is taken for "Yesterday" by The Beatles.
C34_Witness ==
  /\ result = Some(TRUE)
  /\ Val(probe).res.trackName = None
  /\ Val(probe).res.artistName = None
  /\ Val(probe).expectedTitle = normalizeSearchTerm(Txt_Yesterday)
  /\ Val(probe).expectedArtist = normalizeSearchTerm(Txt_TheBeatles)

====
